---- MODULE Spec2Model ----
(***************************************************************************)
(* JavaScriptCore evaluator (yt_dlp/utils/_jscore.py) and its provider     *)
(* adapter (yt_dlp/extractor/youtube/jsc/_builtin/pythonista.py).          *)
(*                                                                         *)
(* One provider instance is shared by the threads of Threads.  Each thread *)
(* runs _run_js_runtime: it reads the cached _evaluator property (building *)
(* the evaluator on a miss), then runs evaluate, one native call per step. *)
(* The native engine is the environment: every native call returns one of  *)
(* the values its C signature allows.                                      *)
(***************************************************************************)
EXTENDS Integers, Sequences, FiniteSets, TLC

VARIABLES pc, cache, cacheLock, lockHolder, ev, loc, trace, live, calls,
          locatorRuns, bindRuns, loadFailures, librariesLoaded, outcome

\* the library locator run on its own: the platform it runs on and what
\* _load_library returned
VARIABLES platform, located

\* evaluate followed end to end for a script of print calls on an engine
\* that works: the number of calls made, the latest script, the lines the
\* engine held from the call before, the lines the latest call left, and
\* what the latest call returned or raised
VARIABLES wcall, wscript, wbefore, wleft, wresult

locateVars == <<platform, located>>

wrapVars == <<wcall, wscript, wbefore, wleft, wresult>>

evalVars == <<pc, cache, cacheLock, lockHolder, ev, loc, trace, live, calls,
              locatorRuns, bindRuns, loadFailures, librariesLoaded, outcome>>

vars == <<evalVars, locateVars, wrapVars>>

---------------------------------------------------------------------------
(* Bounds *)

\* total number of _run_js_runtime requests over all threads
MaxCalls == 2
\* longest native string the engine hands back
MaxLen == 1

Threads == {1, 2}

---------------------------------------------------------------------------
(* Values *)

\* a null pointer / None: what `not x` tests
NULL == <<>>
NoThread == 0

\* the bytes JSStringGetUTF8CString can write: an ordinary character, an
\* embedded NUL, and a byte that is not valid UTF-8
Bytes == {"a", "NUL", "xFF"}

RECURSIVE SeqsUpTo(_, _)
SeqsUpTo(S, n) ==
    IF n = 0 THEN {<<>>}
    ELSE LET shorter == SeqsUpTo(S, n - 1)
         IN  shorter \cup {Append(s, x) : s \in {q \in shorter : Len(q) = n - 1}, x \in S}

Texts == SeqsUpTo(Bytes, MaxLen)

\* handles are named by the call that obtained them
Handle(t, kind) == <<t, calls[t], kind>>

\* the messages of the program, each one token of a text
MsgUnavailable == <<"JavaScriptCore framework is not available">>
MsgNoContext == <<"Failed to create JavaScriptCore context">>
MsgNoString == <<"Failed to allocate script string">>
MsgGeneric == <<"JavaScriptCore raised an exception">>
ProviderPrefix == <<"JavaScriptCore runtime failed: ">>

NoError == [type |-> "none", msg |-> <<>>]
JavaScriptCoreError(m) == [type |-> "JavaScriptCoreError", msg |-> m]

---------------------------------------------------------------------------
(* Library locator *)

FrameworkPath == "/System/Library/Frameworks/JavaScriptCore.framework/JavaScriptCore"

LibraryNames == <<"JavaScriptCore", "javascriptcoregtk-4.1",
                  "javascriptcoregtk-4.0", "javascriptcoregtk-3.0">>

\* what the platform says of a candidate: find_library finds nothing
\* ("absent"), CDLL raises OSError ("broken"), or CDLL loads it ("ok")
LibStatus == {"absent", "broken", "ok"}

AllNames == {FrameworkPath} \cup {LibraryNames[i] : i \in 1..Len(LibraryNames)}

\* the platforms considered: the framework path is always tried, so it is
\* never "absent"
Platforms == {p \in [AllNames -> LibStatus] : p[FrameworkPath] # "absent"}

\* _candidate_libraries: the framework path, then each name find_library
\* resolves
RECURSIVE FoundNames(_, _)
FoundNames(p, i) ==
    IF i > Len(LibraryNames) THEN <<>>
    ELSE (IF p[LibraryNames[i]] # "absent" THEN <<LibraryNames[i]>> ELSE <<>>)
         \o FoundNames(p, i + 1)

CandidateLibraries(p) == <<FrameworkPath>> \o FoundNames(p, 1)

\* LoadFrom that lets the OSError of a candidate end the search
LoadFrom_FailFast(p, cands, i, tried) ==
    IF i > Len(cands) THEN [path |-> NULL, tried |-> tried]
    ELSE [path |-> IF p[cands[i]] = "ok" THEN <<cands[i]>> ELSE NULL,
          tried |-> Append(tried, cands[i])]

\* _load_library: the first candidate CDLL loads, trying them in order;
\* tried is the sequence of CDLL attempts made
RECURSIVE LoadFrom(_, _, _, _)
LoadFrom(p, cands, i, tried) ==
    IF i > Len(cands) THEN [path |-> NULL, tried |-> tried]
    ELSE IF p[cands[i]] = "ok"
         THEN [path |-> <<cands[i]>>, tried |-> Append(tried, cands[i])]
         ELSE LoadFrom(p, cands, i + 1, Append(tried, cands[i]))

LoadLibrary(p) == LoadFrom(p, CandidateLibraries(p), 1, <<>>)

---------------------------------------------------------------------------
(* Text extraction *)

\* JSStringGetMaximumUTF8CStringSize: room for the bytes and the terminator
MaximumUTF8CStringSize(content) == Len(content) + 1

\* JSStringGetUTF8CString into a buffer of `size` bytes: at most size - 1
\* bytes, then the terminator
Written(content, size) ==
    IF size = 0 THEN <<>>
    ELSE SubSeq(content, 1, IF Len(content) < size - 1 THEN Len(content) ELSE size - 1)

\* buffer.value: the bytes before the first NUL
RECURSIVE BufferValue(_)
BufferValue(b) ==
    IF b = <<>> \/ Head(b) = "NUL" THEN <<>>
    ELSE <<Head(b)>> \o BufferValue(Tail(b))

\* bytes.decode('utf-8', 'replace')
DecodeByte(x) == IF x = "xFF" THEN "uFFFD" ELSE x
DecodeReplace(b) == [i \in 1..Len(b) |-> DecodeByte(b[i])]

\* _string_to_python, for a non-null string of the given content
StringToPython(content) ==
    DecodeReplace(BufferValue(Written(content, MaximumUTF8CStringSize(content))))

\* MessageOr that drops the exception's text
MessageOr_AlwaysGeneric(message) == MsgGeneric

\* `message or 'JavaScriptCore raised an exception'`
MessageOr(message) == IF message = <<>> THEN MsgGeneric ELSE message

---------------------------------------------------------------------------
(* Per-thread locals *)

NoLocals == [context |-> NULL, js_string |-> NULL, result |-> NULL,
             exception |-> NULL, mode |-> "none", value |-> NULL,
             string_ref |-> NULL, conv_exception |-> NULL, content |-> <<>>,
             size |-> 0, text |-> <<>>, pending |-> NoError, retval |-> <<>>]

NoOutcome == [kind |-> "none", type |-> "none", msg |-> <<>>, cause |-> NoError]

\* one native call of the current request: the function, the handles passed,
\* the handle returned and the exception out-parameter after the call
Call(fn, args, ret, exc) == [fn |-> fn, args |-> args, ret |-> ret, exc |-> exc]

Log(t, fn, args, ret, exc) ==
    trace' = [trace EXCEPT ![t] = Append(@, Call(fn, args, ret, exc))]

Goto(t, label) == pc' = [pc EXCEPT ![t] = label]

Set(t, r) == loc' = [loc EXCEPT ![t] = r]

TotalCalls == calls[1] + calls[2]

InitEvaluator ==
    /\ pc = [t \in Threads |-> "idle"]
    /\ cache = NULL
    /\ cacheLock \in BOOLEAN
    /\ lockHolder = NoThread
    /\ ev = [t \in Threads |-> NULL]
    /\ loc = [t \in Threads |-> NoLocals]
    /\ trace = [t \in Threads |-> <<>>]
    /\ live = {}
    /\ calls = [t \in Threads |-> 0]
    /\ locatorRuns = 0
    /\ bindRuns = 0
    /\ loadFailures = 0
    /\ librariesLoaded = 0
    /\ outcome = [t \in Threads |-> NoOutcome]

\* the locator has not been run on its own
NoPlatform == [n \in AllNames |-> "absent"]
NotLocated == [done |-> FALSE, path |-> NULL, tried |-> <<>>]
LocateIdle == platform = NoPlatform /\ located = NotLocated

\* no script has been followed end to end
NoScript == [prints |-> <<>>, ends |-> "falls_through"]
NoResult == [kind |-> "none", type |-> "none", text |-> <<>>]
WrapIdle ==
    /\ wcall = 0
    /\ wscript = NoScript
    /\ wbefore = <<>>
    /\ wleft = <<>>
    /\ wresult = NoResult

Init == InitEvaluator /\ LocateIdle /\ WrapIdle

---------------------------------------------------------------------------
(* Provider adapter: _run_js_runtime and the cached _evaluator property *)

\* the provider is asked to run a script
StartRequest(t) ==
    /\ pc[t] = "idle"
    /\ TotalCalls < MaxCalls
    /\ calls' = [calls EXCEPT ![t] = @ + 1]
    /\ Goto(t, "cp_get")
    /\ UNCHANGED <<locateVars, wrapVars>>
    /\ UNCHANGED <<cache, cacheLock, lockHolder, ev, loc, trace, live,
                   locatorRuns, bindRuns, loadFailures, librariesLoaded, outcome>>

\* CachedPropertyGet of a plain property: the getter runs on every access
CachedPropertyGet_Uncached(t) ==
    /\ pc[t] = "cp_get"
    /\ Goto(t, "init")
    /\ UNCHANGED <<locateVars, wrapVars>>
    /\ UNCHANGED <<cache, cacheLock, lockHolder, ev, loc, trace, live, calls,
                   locatorRuns, bindRuns, loadFailures, librariesLoaded, outcome>>

\* cached_property.__get__: the unguarded look into the instance's __dict__
CachedPropertyGet(t) ==
    /\ pc[t] = "cp_get"
    /\ IF cache # NULL
       THEN /\ ev' = [ev EXCEPT ![t] = cache]
            /\ Goto(t, "ctx_create")
       ELSE /\ ev' = ev
            /\ Goto(t, IF cacheLock THEN "cp_lock" ELSE "init")
    /\ UNCHANGED <<locateVars, wrapVars>>
    /\ UNCHANGED <<cache, cacheLock, lockHolder, loc, trace, live, calls,
                   locatorRuns, bindRuns, loadFailures, librariesLoaded, outcome>>

\* cached_property.__get__ of an interpreter that guards the getter: take the
\* lock, look again
CachedPropertyLock(t) ==
    /\ pc[t] = "cp_lock"
    /\ lockHolder = NoThread
    /\ IF cache # NULL
       THEN /\ ev' = [ev EXCEPT ![t] = cache]
            /\ lockHolder' = lockHolder
            /\ Goto(t, "ctx_create")
       ELSE /\ ev' = ev
            /\ lockHolder' = t
            /\ Goto(t, "init")
    /\ UNCHANGED <<locateVars, wrapVars>>
    /\ UNCHANGED <<cache, cacheLock, loc, trace, live, calls,
                   locatorRuns, bindRuns, loadFailures, librariesLoaded, outcome>>

\* `if not self._library` of __init__
LibraryMissing(library) == library = NULL

\* JavaScriptCoreEvaluator.__init__ on platform p: locate, then bind
EvaluatorInit(t) ==
    /\ pc[t] = "init"
    /\ \E p \in Platforms :
         LET found == LoadLibrary(p) IN
         /\ locatorRuns' = locatorRuns + 1
         /\ IF LibraryMissing(found.path)
            THEN /\ loadFailures' = loadFailures + 1
                 /\ Set(t, [loc[t] EXCEPT !.pending = JavaScriptCoreError(MsgUnavailable)])
                 /\ lockHolder' = IF lockHolder = t THEN NoThread ELSE lockHolder
                 /\ Goto(t, "run_exit")
                 /\ UNCHANGED <<ev, bindRuns, librariesLoaded>>
            ELSE /\ librariesLoaded' = librariesLoaded + 1
                 /\ bindRuns' = bindRuns + 1
                 /\ ev' = [ev EXCEPT ![t] = [library |-> librariesLoaded + 1,
                                             configured |-> TRUE]]
                 /\ Goto(t, "cp_store")
                 /\ UNCHANGED <<loadFailures, loc, lockHolder>>
    /\ UNCHANGED <<locateVars, wrapVars>>
    /\ UNCHANGED <<cache, cacheLock, trace, live, calls, outcome>>

\* cached_property.__get__: the new evaluator goes into the __dict__
CachedPropertyStore(t) ==
    /\ pc[t] = "cp_store"
    /\ cache' = ev[t]
    /\ lockHolder' = IF lockHolder = t THEN NoThread ELSE lockHolder
    /\ Goto(t, "ctx_create")
    /\ UNCHANGED <<locateVars, wrapVars>>
    /\ UNCHANGED <<cacheLock, ev, loc, trace, live, calls,
                   locatorRuns, bindRuns, loadFailures, librariesLoaded, outcome>>

\* ProviderOutcome without the except clause: the evaluator's error goes
\* to the caller as it is
ProviderOutcome_Unwrapped(pending, retval) ==
    IF pending.type = "JavaScriptCoreError"
    THEN [kind |-> "raise", type |-> pending.type, msg |-> pending.msg, cause |-> NoError]
    ELSE [kind |-> "return", type |-> "str", msg |-> retval, cause |-> NoError]

\* what _run_js_runtime hands its caller: the text, or the evaluator's error
\* wrapped
ProviderOutcome(pending, retval) ==
    IF pending.type = "JavaScriptCoreError"
    THEN [kind |-> "raise", type |-> "JsChallengeProviderError",
          msg |-> ProviderPrefix \o pending.msg, cause |-> pending]
    ELSE [kind |-> "return", type |-> "str", msg |-> retval, cause |-> NoError]

RunExit(t) ==
    /\ pc[t] = "run_exit"
    /\ outcome' = [outcome EXCEPT ![t] = ProviderOutcome(loc[t].pending, loc[t].retval)]
    /\ Goto(t, "done")
    /\ UNCHANGED <<locateVars, wrapVars>>
    /\ UNCHANGED <<cache, cacheLock, lockHolder, ev, loc, trace, live, calls,
                   locatorRuns, bindRuns, loadFailures, librariesLoaded>>

\* the caller has the outcome; the call's frame is gone
Finish(t) ==
    /\ pc[t] = "done"
    /\ Goto(t, "idle")
    /\ ev' = [ev EXCEPT ![t] = NULL]
    /\ Set(t, NoLocals)
    /\ trace' = [trace EXCEPT ![t] = <<>>]
    /\ outcome' = [outcome EXCEPT ![t] = NoOutcome]
    /\ UNCHANGED <<locateVars, wrapVars>>
    /\ UNCHANGED <<cache, cacheLock, lockHolder, live, calls,
                   locatorRuns, bindRuns, loadFailures, librariesLoaded>>

---------------------------------------------------------------------------
(* JavaScriptCoreEvaluator.evaluate, one native call per step *)

\* the handles a native call may return: null, or a fresh one
Returned(t, kind) == {NULL, Handle(t, kind)}

Created(h) == IF h = NULL THEN {} ELSE {h}

\* ContextMissing without the null test
ContextMissing_Never(context) == FALSE

\* `if not context` of evaluate
ContextMissing(context) == context = NULL

\* evaluate: JSGlobalContextCreate(None) and the null test
ContextCreate(t) ==
    /\ pc[t] = "ctx_create"
    /\ \E c \in Returned(t, "ctx") :
         /\ Log(t, "JSGlobalContextCreate", <<NULL>>, c, NULL)
         /\ live' = live \cup Created(c)
         /\ IF ContextMissing(c)
            THEN /\ Set(t, [loc[t] EXCEPT !.context = c,
                                          !.pending = JavaScriptCoreError(MsgNoContext)])
                 /\ Goto(t, "run_exit")
            ELSE /\ Set(t, [loc[t] EXCEPT !.context = c])
                 /\ Goto(t, "str_create")
    /\ UNCHANGED <<locateVars, wrapVars>>
    /\ UNCHANGED <<cache, cacheLock, lockHolder, ev, calls,
                   locatorRuns, bindRuns, loadFailures, librariesLoaded, outcome>>

\* StringMissing without the null test
StringMissing_Never(js_string) == FALSE

\* `if not js_string` of _evaluate_script
StringMissing(js_string) == js_string = NULL

\* StringCreate with the context released at the end of the try body instead
\* of in a finally clause: the allocation error leaves evaluate directly
StringCreate_NoFinally(t) ==
    /\ pc[t] = "str_create"
    /\ \E s \in Returned(t, "src") :
         /\ Log(t, "JSStringCreateWithUTF8CString", <<>>, s, NULL)
         /\ live' = live \cup Created(s)
         /\ IF StringMissing(s)
            THEN /\ Set(t, [loc[t] EXCEPT !.pending = JavaScriptCoreError(MsgNoString)])
                 /\ Goto(t, "run_exit")
            ELSE /\ Set(t, [loc[t] EXCEPT !.js_string = s])
                 /\ Goto(t, "eval_script")
    /\ UNCHANGED <<locateVars, wrapVars>>
    /\ UNCHANGED <<cache, cacheLock, lockHolder, ev, calls,
                   locatorRuns, bindRuns, loadFailures, librariesLoaded, outcome>>

\* _evaluate_script: JSStringCreateWithUTF8CString(encoded) and the null test
StringCreate(t) ==
    /\ pc[t] = "str_create"
    /\ \E s \in Returned(t, "src") :
         /\ Log(t, "JSStringCreateWithUTF8CString", <<>>, s, NULL)
         /\ live' = live \cup Created(s)
         /\ IF StringMissing(s)
            THEN /\ Set(t, [loc[t] EXCEPT !.pending = JavaScriptCoreError(MsgNoString)])
                 /\ Goto(t, "ctx_release")
            ELSE /\ Set(t, [loc[t] EXCEPT !.js_string = s])
                 /\ Goto(t, "eval_script")
    /\ UNCHANGED <<locateVars, wrapVars>>
    /\ UNCHANGED <<cache, cacheLock, lockHolder, ev, calls,
                   locatorRuns, bindRuns, loadFailures, librariesLoaded, outcome>>

\* EvaluateScript with the context kept on the evaluator instead of in a
\* local: the call takes whichever open context was stored last
EvaluateScript_SharedContext(t) ==
    /\ pc[t] = "eval_script"
    /\ \E r \in Returned(t, "res"), e \in Returned(t, "exc"), c \in {h \in live : h[3] = "ctx"} :
         /\ Log(t, "JSEvaluateScript", <<c, loc[t].js_string>>, r, e)
         /\ Set(t, [loc[t] EXCEPT !.result = r, !.exception = e])
    /\ Goto(t, "src_release")
    /\ UNCHANGED <<locateVars, wrapVars>>
    /\ UNCHANGED <<cache, cacheLock, lockHolder, ev, live, calls,
                   locatorRuns, bindRuns, loadFailures, librariesLoaded, outcome>>

\* _evaluate_script: JSEvaluateScript, which returns a value handle or null
\* and sets the exception out-parameter or leaves it null
EvaluateScript(t) ==
    /\ pc[t] = "eval_script"
    /\ \E r \in Returned(t, "res"), e \in Returned(t, "exc") :
         /\ Log(t, "JSEvaluateScript", <<loc[t].context, loc[t].js_string>>, r, e)
         /\ Set(t, [loc[t] EXCEPT !.result = r, !.exception = e])
    /\ Goto(t, "src_release")
    /\ UNCHANGED <<locateVars, wrapVars>>
    /\ UNCHANGED <<cache, cacheLock, lockHolder, ev, live, calls,
                   locatorRuns, bindRuns, loadFailures, librariesLoaded, outcome>>

\* SourceRelease with the context released along with the source string
SourceRelease_AlsoContext(t) ==
    /\ pc[t] = "src_release"
    /\ trace' = [trace EXCEPT ![t] =
                   @ \o <<Call("JSStringRelease", <<loc[t].js_string>>, NULL, NULL),
                          Call("JSGlobalContextRelease", <<loc[t].context>>, NULL, NULL)>>]
    /\ live' = live \ {loc[t].js_string, loc[t].context}
    /\ Goto(t, "branch")
    /\ UNCHANGED <<locateVars, wrapVars>>
    /\ UNCHANGED <<cache, cacheLock, lockHolder, ev, loc, calls,
                   locatorRuns, bindRuns, loadFailures, librariesLoaded, outcome>>

\* SourceRelease with the release placed after the exception test instead of
\* in a finally clause: a script exception skips it
SourceRelease_AfterTest(t) ==
    /\ pc[t] = "src_release"
    /\ IF loc[t].exception # NULL
       THEN UNCHANGED <<trace, live>>
       ELSE /\ Log(t, "JSStringRelease", <<loc[t].js_string>>, NULL, NULL)
            /\ live' = live \ {loc[t].js_string}
    /\ Goto(t, "branch")
    /\ UNCHANGED <<locateVars, wrapVars>>
    /\ UNCHANGED <<cache, cacheLock, lockHolder, ev, loc, calls,
                   locatorRuns, bindRuns, loadFailures, librariesLoaded, outcome>>

\* _evaluate_script: the finally clause around JSEvaluateScript
SourceRelease(t) ==
    /\ pc[t] = "src_release"
    /\ Log(t, "JSStringRelease", <<loc[t].js_string>>, NULL, NULL)
    /\ live' = live \ {loc[t].js_string}
    /\ Goto(t, "branch")
    /\ UNCHANGED <<locateVars, wrapVars>>
    /\ UNCHANGED <<cache, cacheLock, lockHolder, ev, loc, calls,
                   locatorRuns, bindRuns, loadFailures, librariesLoaded, outcome>>

\* ExceptionPath that looks at the result handle first
ExceptionPath_ResultFirst(exception, result) == exception # NULL /\ result = NULL

\* `if exception.value` of _evaluate_script: which handle is converted
ExceptionPath(exception, result) == exception # NULL

\* ValueMissing without the null test
ValueMissing_Never(value) == FALSE

\* `if not value` of _value_to_string
ValueMissing(value) == value = NULL

\* _evaluate_script after the source string is released: take the exception
\* path or the result path and enter _value_to_string
Branch(t) ==
    /\ pc[t] = "branch"
    /\ LET mode == IF ExceptionPath(loc[t].exception, loc[t].result) THEN "exception" ELSE "result"
           value == IF mode = "exception" THEN loc[t].exception ELSE loc[t].result
       IN  /\ Set(t, [loc[t] EXCEPT !.mode = mode, !.value = value])
           /\ Goto(t, IF ValueMissing(value) THEN "v2s_return" ELSE "v2s_copy")
    /\ UNCHANGED <<locateVars, wrapVars>>
    /\ UNCHANGED <<cache, cacheLock, lockHolder, ev, trace, live, calls,
                   locatorRuns, bindRuns, loadFailures, librariesLoaded, outcome>>

\* ConversionFailed without the test of the out-parameter
ConversionFailed_Ignored(conv_exception) == FALSE

\* `if exception.value` of _value_to_string
ConversionFailed(conv_exception) == conv_exception # NULL

\* `if not string_ref` of _string_to_python
StringRefMissing(string_ref) == string_ref = NULL

\* where _value_to_string goes after JSValueToStringCopy
AfterCopy(string_ref, conv_exception) ==
    IF ConversionFailed(conv_exception) THEN "v2s_return"
    ELSE IF StringRefMissing(string_ref) THEN "v2s_release"
    ELSE "s2p_size"

\* _value_to_string: JSValueToStringCopy, which returns a string handle or
\* null and sets its own exception out-parameter or leaves it null
ValueToStringCopy(t) ==
    /\ pc[t] = "v2s_copy"
    /\ \E s \in Returned(t, "str"), x \in Returned(t, "cexc") :
         /\ Log(t, "JSValueToStringCopy", <<loc[t].context, loc[t].value>>, s, x)
         /\ live' = live \cup Created(s)
         /\ Set(t, [loc[t] EXCEPT !.string_ref = s, !.conv_exception = x])
         /\ Goto(t, AfterCopy(s, x))
    /\ UNCHANGED <<locateVars, wrapVars>>
    /\ UNCHANGED <<cache, cacheLock, lockHolder, ev, calls,
                   locatorRuns, bindRuns, loadFailures, librariesLoaded, outcome>>

\* _string_to_python: JSStringGetMaximumUTF8CStringSize; what the engine's
\* string holds shows here for the first time
StringSize(t) ==
    /\ pc[t] = "s2p_size"
    /\ Log(t, "JSStringGetMaximumUTF8CStringSize", <<loc[t].string_ref>>, NULL, NULL)
    /\ \E c \in Texts :
         Set(t, [loc[t] EXCEPT !.content = c, !.size = MaximumUTF8CStringSize(c)])
    /\ Goto(t, "s2p_get")
    /\ UNCHANGED <<locateVars, wrapVars>>
    /\ UNCHANGED <<cache, cacheLock, lockHolder, ev, live, calls,
                   locatorRuns, bindRuns, loadFailures, librariesLoaded, outcome>>

\* _string_to_python: the buffer, JSStringGetUTF8CString, buffer.value decoded
StringGet(t) ==
    /\ pc[t] = "s2p_get"
    /\ Log(t, "JSStringGetUTF8CString", <<loc[t].string_ref>>, NULL, NULL)
    /\ Set(t, [loc[t] EXCEPT !.text = DecodeReplace(BufferValue(Written(loc[t].content, loc[t].size))),
                              !.content = <<>>, !.size = 0])
    /\ Goto(t, "v2s_release")
    /\ UNCHANGED <<locateVars, wrapVars>>
    /\ UNCHANGED <<cache, cacheLock, lockHolder, ev, live, calls,
                   locatorRuns, bindRuns, loadFailures, librariesLoaded, outcome>>

\* _value_to_string: the finally clause around _string_to_python
StringRelease(t) ==
    /\ pc[t] = "v2s_release"
    /\ Log(t, "JSStringRelease", <<loc[t].string_ref>>, NULL, NULL)
    /\ live' = live \ {loc[t].string_ref}
    /\ Goto(t, "v2s_return")
    /\ UNCHANGED <<locateVars, wrapVars>>
    /\ UNCHANGED <<cache, cacheLock, lockHolder, ev, loc, calls,
                   locatorRuns, bindRuns, loadFailures, librariesLoaded, outcome>>

\* _evaluate_script has returned or raised: only evaluate's frame is left
PopEvaluateScript(l) == [NoLocals EXCEPT !.context = l.context]

\* _evaluate_script with the text _value_to_string returned: raise it as the
\* exception's message, or return it as the result
ValueToStringReturn(t) ==
    /\ pc[t] = "v2s_return"
    /\ IF loc[t].mode = "exception"
       THEN Set(t, [PopEvaluateScript(loc[t]) EXCEPT !.pending = JavaScriptCoreError(MessageOr(loc[t].text))])
       ELSE Set(t, [PopEvaluateScript(loc[t]) EXCEPT !.retval = loc[t].text])
    /\ Goto(t, "ctx_release")
    /\ UNCHANGED <<locateVars, wrapVars>>
    /\ UNCHANGED <<cache, cacheLock, lockHolder, ev, trace, live, calls,
                   locatorRuns, bindRuns, loadFailures, librariesLoaded, outcome>>

\* evaluate: the finally clause around _evaluate_script
ContextRelease(t) ==
    /\ pc[t] = "ctx_release"
    /\ Log(t, "JSGlobalContextRelease", <<loc[t].context>>, NULL, NULL)
    /\ live' = live \ {loc[t].context}
    /\ Goto(t, "run_exit")
    /\ UNCHANGED <<locateVars, wrapVars>>
    /\ UNCHANGED <<cache, cacheLock, lockHolder, ev, loc, calls,
                   locatorRuns, bindRuns, loadFailures, librariesLoaded, outcome>>

---------------------------------------------------------------------------
(* Specifications *)

Step(t) ==
    \/ StartRequest(t)
    \/ CachedPropertyGet(t)
    \/ CachedPropertyLock(t)
    \/ EvaluatorInit(t)
    \/ CachedPropertyStore(t)
    \/ ContextCreate(t)
    \/ StringCreate(t)
    \/ EvaluateScript(t)
    \/ SourceRelease(t)
    \/ Branch(t)
    \/ ValueToStringCopy(t)
    \/ StringSize(t)
    \/ StringGet(t)
    \/ StringRelease(t)
    \/ ValueToStringReturn(t)
    \/ ContextRelease(t)
    \/ RunExit(t)
    \/ Finish(t)

\* the threads run concurrently
Next == \E t \in Threads : Step(t)

Spec == Init /\ [][Next]_vars

\* one request at a time: a thread starts only when no request is under way
NextSeq == \E t \in Threads : Step(t) /\ \A u \in Threads \ {t} : pc[u] = "idle"

SpecSeq == Init /\ [][NextSeq]_vars

---------------------------------------------------------------------------
(* The library locator on its own, on every platform *)

InitLocate ==
    /\ InitEvaluator
    /\ WrapIdle
    /\ platform \in Platforms
    /\ located = NotLocated

\* _load_library()
Locate ==
    /\ ~located.done
    /\ located' = [done |-> TRUE,
                   path |-> LoadLibrary(platform).path,
                   tried |-> LoadLibrary(platform).tried]
    /\ UNCHANGED <<platform, evalVars, wrapVars>>

SpecLocate == InitLocate /\ [][Locate]_vars

---------------------------------------------------------------------------
(* The wrapped script, on an engine whose native calls all succeed *)

MaxPrints == 2

\* JavaScript values a script passes to console.log: a string, the number
\* 1, and an object that refers to itself
JsString(text) == [type |-> "string", text |-> text]
JsNumber == [type |-> "number", text |-> <<"1">>]
JsCyclic == [type |-> "cyclic", text |-> <<>>]

\* JSON.stringify(arg): the JSON text, or a TypeError for a cyclic object
JsonStringify(arg) ==
    IF arg.type = "cyclic" THEN [threw |-> TRUE, text |-> <<>>]
    ELSE IF arg.type = "string"
         THEN [threw |-> FALSE, text |-> <<"\"">> \o arg.text \o <<"\"">>]
         ELSE [threw |-> FALSE, text |-> arg.text]

\* String(arg)
StringOf(arg) == IF arg.type = "cyclic" THEN <<"[object Object]">> ELSE arg.text

\* the callback of args.map: strings pass, others go through JSON.stringify
\* with String as the fallback
Stringify(arg) ==
    IF arg.type = "string" THEN arg.text
    ELSE IF JsonStringify(arg).threw THEN StringOf(arg)
         ELSE JsonStringify(arg).text

\* Array.prototype.join
RECURSIVE Join(_, _)
Join(texts, sep) ==
    IF texts = <<>> THEN <<>>
    ELSE IF Len(texts) = 1 THEN texts[1]
         ELSE texts[1] \o <<sep>> \o Join(Tail(texts), sep)

\* __yt_console_log(...args): the line one call pushes
ConsoleLog(args) == Join([i \in 1..Len(args) |-> Stringify(args[i])], " ")

\* the print calls a script makes: console.log('a'), console.log('a\0b')
\* and console.log(1, cyclic)
PrintCalls == {<<JsString(<<"a">>)>>,
               <<JsString(<<"a", "NUL", "b">>)>>,
               <<JsNumber, JsCyclic>>}

\* how the statements of the script end: they run to the end, or they
\* throw an Error
Ends == {"falls_through", "throws"}
ThrownText == <<"Error: boom">>

Scripts == [prints : SeqsUpTo(PrintCalls, MaxPrints), ends : Ends]

Lines(prints) == [i \in 1..Len(prints) |-> ConsoleLog(prints[i])]

\* WrapperAccumulator that keeps what the call before left
WrapperAccumulator_Shared(before) == before

\* `const __yt_console_output = []` in the fresh context of the call
WrapperAccumulator(before) == <<>>

\* what evaluate gives for script s whose accumulator ended as acc
EvaluateOutcome(s, acc) ==
    IF s.ends = "throws"
    THEN [kind |-> "raise", type |-> JavaScriptCoreError(<<>>).type,
          text |-> MessageOr(StringToPython(ThrownText))]
    ELSE [kind |-> "return", type |-> NoError.type,
          text |-> StringToPython(Join(acc, "LF"))]

InitWrap ==
    /\ InitEvaluator
    /\ LocateIdle
    /\ WrapIdle

\* evaluate(script)
Evaluate ==
    /\ wcall < MaxCalls
    /\ \E s \in Scripts :
          LET acc == WrapperAccumulator(wleft) \o Lines(s.prints)
          IN  /\ wscript' = s
              /\ wleft' = acc
              /\ wresult' = EvaluateOutcome(s, acc)
    /\ wcall' = wcall + 1
    /\ wbefore' = wleft
    /\ UNCHANGED <<evalVars, locateVars>>

SpecWrap == InitWrap /\ [][Evaluate]_vars

---------------------------------------------------------------------------
(* Reading the record of a request's native calls *)

\* evaluate was entered and has returned or raised
EvaluateExited(t) == pc[t] \in {"run_exit", "done"} /\ trace[t] # <<>>

\* the positions in t's record of the calls of fn
CallsOf(t, fn) == {i \in DOMAIN trace[t] : trace[t][i].fn = fn}

\* the positions in t's record of the calls of fn on handle h
CallsOn(t, fn, h) == {i \in CallsOf(t, fn) : trace[t][i].args = <<h>>}

\* the context of t's request: what JSGlobalContextCreate returned
ContextOf(t) == trace[t][1].ret

\* the handles obtained from JSEvaluateScript: the result and the exception
OutcomeHandles(t) ==
    UNION {{trace[t][i].ret, trace[t][i].exc} : i \in CallsOf(t, "JSEvaluateScript")} \ {NULL}

\* the native calls that take a context or a value handle
Uses(t, i, h) == \E k \in DOMAIN trace[t][i].args : trace[t][i].args[k] = h

---------------------------------------------------------------------------
(* Claims *)

\* C1: when JSGlobalContextCreate returned a context, evaluate has called
\* JSGlobalContextRelease on it exactly once by the time it returns or
\* raises, whatever the exit path; and never more than once at any time.
C1_ContextReleasedOnce ==
    \A t \in Threads :
        trace[t] # <<>> /\ ContextOf(t) # NULL =>
            /\ Cardinality(CallsOn(t, "JSGlobalContextRelease", ContextOf(t))) <= 1
            /\ EvaluateExited(t) =>
                 Cardinality(CallsOn(t, "JSGlobalContextRelease", ContextOf(t))) = 1

\* C1 witness: evaluate has raised the string-allocation error and the
\* context it had opened was released
C1_Witness ==
    \E t \in Threads :
        /\ EvaluateExited(t)
        /\ ContextOf(t) # NULL
        /\ loc[t].pending = JavaScriptCoreError(MsgNoString)
        /\ CallsOn(t, "JSGlobalContextRelease", ContextOf(t)) # {}

\* C2: once evaluate has returned or raised, no context or string handle
\* the call created is still outstanding, whatever the native calls returned.
C2_NoHandleOutstanding ==
    \A t \in Threads :
        EvaluateExited(t) => ~ \E h \in live : h[1] = t /\ h[2] = calls[t]

\* C3: no native call that takes the context, the result or the exception
\* comes after JSGlobalContextRelease in a request, and the context is not
\* released twice.
C3_NoUseAfterContextRelease ==
    \A t \in Threads :
        \A i \in CallsOf(t, "JSGlobalContextRelease") :
            \A j \in DOMAIN trace[t] :
                j > i =>
                    /\ trace[t][j].fn # "JSGlobalContextRelease"
                    /\ ~ Uses(t, j, ContextOf(t))
                    /\ \A v \in OutcomeHandles(t) : ~ Uses(t, j, v)

\* C3 witness: the exception handle was converted and the context released
\* after it
C3_Witness ==
    \E t \in Threads :
        /\ EvaluateExited(t)
        /\ \E j \in CallsOf(t, "JSValueToStringCopy") :
             /\ trace[t][j].args[2] \in OutcomeHandles(t)
             /\ trace[t][j].args[2][3] = "exc"
             /\ \E i \in CallsOf(t, "JSGlobalContextRelease") : j < i

\* C4: a non-null source string is released by the native call right after
\* JSEvaluateScript, exception or not, hence before any conversion and
\* before the context is released, and it is released exactly once.
C4_SourceReleasedRightAfterEvaluate ==
    \A t \in Threads :
        \A i \in CallsOf(t, "JSStringCreateWithUTF8CString") :
            LET src == trace[t][i].ret IN
            src # NULL =>
                /\ Cardinality(CallsOn(t, "JSStringRelease", src)) <= 1
                /\ \A j \in CallsOf(t, "JSEvaluateScript") :
                     j < Len(trace[t]) =>
                        /\ trace[t][j + 1].fn = "JSStringRelease"
                        /\ trace[t][j + 1].args = <<src>>
                /\ \A k \in CallsOn(t, "JSStringRelease", src) :
                     /\ k - 1 \in CallsOf(t, "JSEvaluateScript")
                     /\ \A m \in CallsOf(t, "JSValueToStringCopy")
                              \cup CallsOf(t, "JSGlobalContextRelease") : k < m
                /\ EvaluateExited(t) =>
                     Cardinality(CallsOn(t, "JSStringRelease", src)) = 1

\* C4 witness: JSEvaluateScript set the exception out-parameter and the
\* source string was released before the exception was converted
C4_Witness ==
    \E t \in Threads :
        /\ EvaluateExited(t)
        /\ \E j \in CallsOf(t, "JSEvaluateScript") :
             /\ trace[t][j].exc # NULL
             /\ trace[t][j + 1].fn = "JSStringRelease"
             /\ trace[t][j + 2].fn = "JSValueToStringCopy"

\* C5: while no candidate library has ever loaded, the locator has run for
\* at most one request, every finished request has failed, and no native
\* engine call has been made.
C5_UnavailabilityDetectedOnce ==
    librariesLoaded = 0 =>
        /\ locatorRuns <= 1
        /\ \A t \in Threads : pc[t] = "done" => outcome[t].kind = "raise"
        /\ \A t \in Threads : trace[t] = <<>>

\* C6: with threads running the provider concurrently (and no load failing),
\* the locator and the binding each run at most once and all threads
\* evaluate through the same library handle.
C6_EstablishedAtMostOnce ==
    loadFailures = 0 =>
        /\ locatorRuns <= 1
        /\ bindRuns <= 1
        /\ \A t, u \in Threads :
             ev[t] # NULL /\ ev[u] # NULL => ev[t].library = ev[u].library

\* C7: with requests made one after another, once the provider holds an
\* evaluator no step runs the locator or the binding again or changes the
\* evaluator held, and every request evaluates through it.
C7_Step ==
    cache # NULL =>
        /\ cache' = cache
        /\ locatorRuns' = locatorRuns
        /\ bindRuns' = bindRuns
        /\ librariesLoaded' = librariesLoaded
        /\ \A t \in Threads : ev'[t] # NULL => ev'[t] = cache

\* C7: every step keeps the library handle once it is held
C7_LibraryHandleReused == [][C7_Step]_vars

\* C7 witness: a second request has run evaluate, after the first obtained
\* the library, through the evaluator the provider holds
C7_Witness ==
    \E t \in Threads :
        /\ cache # NULL
        /\ TotalCalls = 2
        /\ locatorRuns = 1
        /\ EvaluateExited(t)
        /\ ev[t] = cache

\* the exception out-parameter of t's JSEvaluateScript was set
ScriptRaised(t) == \E j \in CallsOf(t, "JSEvaluateScript") : trace[t][j].exc # NULL

\* the exception was handed to JSValueToStringCopy, which set no exception
ExceptionStringified(t) ==
    /\ ScriptRaised(t)
    /\ \E k \in CallsOf(t, "JSValueToStringCopy") : trace[t][k].exc = NULL

\* C8 as claimed: whenever the script raised and the exception stringified
\* successfully, the error's message is non-empty and is not the generic
\* placeholder.
C8_MessageNeverGeneric ==
    \A t \in Threads :
        EvaluateExited(t) /\ ExceptionStringified(t) =>
            /\ loc[t].pending.type = "JavaScriptCoreError"
            /\ loc[t].pending.msg # <<>>
            /\ loc[t].pending.msg # MsgGeneric

\* C8 as amended: whenever the script raised and the conversion of the
\* exception set no exception and yielded non-empty text, the error's
\* message is exactly that text, not the generic placeholder; the text is
\* the engine's string up to its first NUL, decoded.
C8_Step ==
    \A t \in Threads :
        /\ pc[t] = "s2p_get" /\ pc'[t] = "v2s_release" =>
             loc'[t].text = StringToPython(loc[t].content)
        /\ ( /\ pc[t] = "v2s_return" /\ pc'[t] = "ctx_release"
             /\ loc[t].mode = "exception"
             /\ loc[t].conv_exception = NULL
             /\ loc[t].text # <<>> ) =>
                /\ loc'[t].pending = JavaScriptCoreError(loc[t].text)
                /\ loc'[t].pending.msg # MsgGeneric

\* C8 as amended: every step that raises the script's exception carries its text
C8_MessageIsExceptionText == [][C8_Step]_vars

\* C8 witness: evaluate has raised with a message taken from the exception
C8_Witness ==
    \E t \in Threads :
        /\ EvaluateExited(t)
        /\ ExceptionStringified(t)
        /\ loc[t].pending = JavaScriptCoreError(<<"a">>)

\* C9: when JSEvaluateScript set the exception out-parameter, only the
\* exception handle is ever converted, evaluate raises a JavaScriptCoreError
\* and returns no result whatever the result handle was, and the message is
\* the conversion's text, or the generic message when that text is empty.
C9_Inv ==
    \A t \in Threads :
        \A j \in CallsOf(t, "JSEvaluateScript") :
            trace[t][j].exc # NULL =>
                /\ \A k \in CallsOf(t, "JSValueToStringCopy") :
                     trace[t][k].args[2] = trace[t][j].exc
                /\ EvaluateExited(t) =>
                     /\ loc[t].pending.type = "JavaScriptCoreError"
                     /\ loc[t].pending.msg # <<>>
                     /\ loc[t].retval = <<>>
                /\ pc[t] = "done" => outcome[t].kind = "raise"

C9_Step ==
    \A t \in Threads :
        ( /\ pc[t] = "v2s_return" /\ pc'[t] = "ctx_release"
          /\ ScriptRaised(t) ) =>
             loc'[t].pending =
                 JavaScriptCoreError(IF loc[t].text = <<>> THEN MsgGeneric ELSE loc[t].text)

\* C9: the exception path always raises, with the text or the generic message
C9_ExceptionAlwaysRaises == []C9_Inv /\ [][C9_Step]_vars

\* C9 witness: JSEvaluateScript returned a result handle and set the
\* exception, and evaluate has raised
C9_Witness ==
    \E t \in Threads :
        /\ EvaluateExited(t)
        /\ \E j \in CallsOf(t, "JSEvaluateScript") :
             trace[t][j].exc # NULL /\ trace[t][j].ret # NULL
        /\ loc[t].pending.type = "JavaScriptCoreError"

\* JSEvaluateScript returned a null result and set no exception
NullResult(t) ==
    \E j \in CallsOf(t, "JSEvaluateScript") :
        trace[t][j].ret = NULL /\ trace[t][j].exc = NULL

\* C10: after a null result with no exception, evaluate returns the empty
\* string without raising, and makes no JSValueToStringCopy, size query or
\* UTF-8 extraction call and no JSStringRelease other than the source
\* string's.
C10_NullResultIsEmptyString ==
    \A t \in Threads :
        NullResult(t) =>
            /\ CallsOf(t, "JSValueToStringCopy") = {}
            /\ CallsOf(t, "JSStringGetMaximumUTF8CStringSize") = {}
            /\ CallsOf(t, "JSStringGetUTF8CString") = {}
            /\ Cardinality(CallsOf(t, "JSStringRelease")) <= 1
            /\ EvaluateExited(t) =>
                 /\ loc[t].pending = NoError
                 /\ loc[t].retval = <<>>
            /\ pc[t] = "done" =>
                 outcome[t] = [kind |-> "return", type |-> "str", msg |-> <<>>,
                               cause |-> NoError]

\* C10 witness: a request whose script gave a null result has returned
C10_Witness == \E t \in Threads : pc[t] = "done" /\ NullResult(t)

\* C12: every JavaScriptCoreError that leaves the evaluator (unavailable
\* engine, no context, no string, script exception) reaches the provider's
\* caller as a JsChallengeProviderError whose message is the backend prefix
\* followed by the original message and whose cause is the original error;
\* the caller never sees a JavaScriptCoreError.
C12_EvaluatorErrorsWrapped ==
    \A t \in Threads :
        pc[t] = "done" =>
            /\ outcome[t].type # "JavaScriptCoreError"
            /\ loc[t].pending.type = "JavaScriptCoreError" =>
                 /\ outcome[t].kind = "raise"
                 /\ outcome[t].type = "JsChallengeProviderError"
                 /\ outcome[t].msg = ProviderPrefix \o loc[t].pending.msg
                 /\ outcome[t].cause = loc[t].pending

\* C12 witness: the unavailable engine was reported to the caller, wrapped
C12_Witness ==
    \E t \in Threads :
        /\ pc[t] = "done"
        /\ loc[t].pending = JavaScriptCoreError(MsgUnavailable)
        /\ outcome[t].msg = ProviderPrefix \o MsgUnavailable

\* JSValueToStringCopy set its own exception out-parameter
ConversionRaised(t) ==
    \E k \in CallsOf(t, "JSValueToStringCopy") : trace[t][k].exc # NULL

\* C15: when JSValueToStringCopy sets its own exception, the string is not
\* read, the conversion yields empty text and raises nothing: evaluate
\* returns the empty string on the result path and raises the generic
\* message on the exception path.
C15_ConversionFailureYieldsEmpty ==
    \A t \in Threads :
        ConversionRaised(t) =>
            /\ CallsOf(t, "JSStringGetMaximumUTF8CStringSize") = {}
            /\ CallsOf(t, "JSStringGetUTF8CString") = {}
            /\ EvaluateExited(t) =>
                 IF ScriptRaised(t)
                 THEN loc[t].pending = JavaScriptCoreError(MsgGeneric)
                 ELSE loc[t].pending = NoError /\ loc[t].retval = <<>>

\* C15 witness: the conversion of the script's exception failed and evaluate
\* has raised
C15_Witness ==
    \E t \in Threads : EvaluateExited(t) /\ ConversionRaised(t) /\ ScriptRaised(t)

\* C16: when JSGlobalContextCreate returns null it is the only native call
\* of the request, evaluate raises the context-creation error, and the
\* provider still holds the evaluator.
C16_NullContextStopsCall ==
    \A t \in Threads :
        trace[t] # <<>> /\ ContextOf(t) = NULL =>
            /\ Len(trace[t]) = 1
            /\ loc[t].pending = JavaScriptCoreError(MsgNoContext)
            /\ pc[t] \in {"run_exit", "done"}
            /\ cache # NULL

\* C16 witness: a thread's second request got a null context
C16_Witness ==
    \E t \in Threads :
        /\ EvaluateExited(t)
        /\ ContextOf(t) = NULL
        /\ calls[t] = 2

\* JSStringCreateWithUTF8CString returned null
NullSource(t) ==
    \E i \in CallsOf(t, "JSStringCreateWithUTF8CString") : trace[t][i].ret = NULL

\* C17: when JSStringCreateWithUTF8CString returns null, JSEvaluateScript
\* and JSStringRelease are never called, evaluate raises the allocation
\* error, and the open context is released exactly once.
C17_NullSourceStopsCall ==
    \A t \in Threads :
        NullSource(t) =>
            /\ CallsOf(t, "JSEvaluateScript") = {}
            /\ CallsOf(t, "JSStringRelease") = {}
            /\ loc[t].pending = JavaScriptCoreError(MsgNoString)
            /\ EvaluateExited(t) =>
                 Cardinality(CallsOf(t, "JSGlobalContextRelease")) = 1

\* C17 witness: evaluate has raised the allocation error
C17_Witness == \E t \in Threads : EvaluateExited(t) /\ NullSource(t)

\* C18: JSStringRelease is never called with a null string handle.
C18_NoReleaseOfNull ==
    \A t \in Threads :
        \A i \in CallsOf(t, "JSStringRelease") : trace[t][i].args # <<NULL>>

\* the request that obtained handle h: its thread and its number
Owner(h) == <<h[1], h[2]>>

\* C14: in any interleaving of requests on one provider, every handle a
\* request passes to a native call is one that the same request of the same
\* thread obtained; no handle crosses from one call to another.
C14_NoHandleShared ==
    \A t \in Threads :
        \A i \in DOMAIN trace[t] :
            \A k \in DOMAIN trace[t][i].args :
                trace[t][i].args[k] # NULL => Owner(trace[t][i].args[k]) = <<t, calls[t]>>

\* C14 witness: two requests through the same library handle are under way
\* at once, each having passed its own context to the engine
C14_Witness ==
    /\ \A t \in Threads : CallsOf(t, "JSEvaluateScript") # {} /\ pc[t] # "done"
    /\ ev[1] = ev[2]

\* the fixed order of the candidates
CandidateOrder == <<FrameworkPath>> \o LibraryNames

\* positions in the fixed order of the candidates that load on platform p
Loadable(p) == {i \in 1..Len(CandidateOrder) : p[CandidateOrder[i]] = "ok"}

\* position of the first candidate that loads, or the last position if none
FirstLoadable(p) ==
    IF Loadable(p) = {} THEN Len(CandidateOrder)
    ELSE CHOOSE i \in Loadable(p) : \A j \in Loadable(p) : i <= j

\* the candidates of the fixed order up to position n that the platform
\* resolves, in that order
ResolvedUpTo(p, n) ==
    LET Resolved(c) == p[c] # "absent"
    IN  SelectSeq(SubSeq(CandidateOrder, 1, n), Resolved)

\* C13: the locator attempts the candidates in the fixed order, goes past
\* every candidate that fails to load, stops at the first that loads and
\* returns it, and returns no handle exactly when none loads.
C13_FirstLoadableInOrder ==
    located.done =>
        /\ located.tried = ResolvedUpTo(platform, FirstLoadable(platform))
        /\ (located.path = NULL) <=> (Loadable(platform) = {})
        /\ located.path # NULL =>
               located.path = <<CandidateOrder[FirstLoadable(platform)]>>

\* C13 witness: a candidate failed to load, a later one loaded and was
\* returned, and a candidate after it would have loaded too
C13_Witness ==
    /\ located.done
    /\ located.path # NULL
    /\ Len(located.tried) > 1
    /\ Cardinality(Loadable(platform)) > 1

\* C11: what evaluate returns is the lines of the print calls of that
\* evaluation, in call order, joined by newline, each line the stringified
\* arguments of its call joined by one space; nothing printed gives the
\* empty string.
C11_OutputIsPrintedLines ==
    wresult.kind = "return" =>
        wresult.text = Join(Lines(wscript.prints), "LF")

\* C19: the outcome of a call, and the lines its accumulator holds, are
\* those of its own script alone, whatever the call before printed and
\* however it ended.
C19_CallsIndependent ==
    wcall > 0 =>
        /\ wleft = Lines(wscript.prints)
        /\ wresult = EvaluateOutcome(wscript, Lines(wscript.prints))

\* C19 witness: a call that printed returned after an earlier call that had
\* printed other lines
C19_Witness ==
    /\ wcall > 1
    /\ wbefore # <<>>
    /\ wleft # <<>>
    /\ wleft # wbefore
    /\ wresult.kind = "return"

====
